---------------------------- MODULE Spec2Model ----------------------------
(***************************************************************************)
(* WebRtcSpl_ComplexBitReverse (src/src/fft.cc): in-place bit-reversal     *)
(* reordering of 2^stages complex samples, each sample two int16_t values  *)
(* (real, imaginary) that the routine moves as one int32_t lane.           *)
(*                                                                         *)
(* The routine is modelled statement by statement: one action per          *)
(* statement of the loop, pc naming the statement about to run.  The       *)
(* buffer is the int16_t array the caller passes, one cell per int16_t.    *)
(* Line 23 casts it to int32_t* and lines 48-50 load and store whole       *)
(* lanes through that pointer.  Two things are left open by that:          *)
(*                                                                         *)
(* - An int16_t array is only 2-byte aligned, so a lane may sit at an      *)
(*   address that is 2 modulo 4; an int32_t access there is performed like *)
(*   any other, or stops the program at the first access (line 48).        *)
(*                                                                         *)
(* - The accesses of lines 48-50 are to int16_t objects through an int32_t *)
(*   lvalue: undefined behaviour (type-based aliasing).  A build that      *)
(*   treats them as plain memory accesses ("memory": -O0,                  *)
(*   -fno-strict-aliasing) exchanges the lanes.  A build that uses the     *)
(*   types ("typed": an optimising build in which the routine is visible   *)
(*   to its caller, by inlining or at link time) takes the int32_t         *)
(*   accesses not to touch the int16_t objects: an int16_t read after the  *)
(*   call may return the stored lane or what the int16_t held before, and  *)
(*   a lane load may miss an int16_t store made before the call.           *)
(*                                                                         *)
(* So that every such outcome is covered, the buffer is kept as, for every *)
(* int16_t, the SET of values an access may find there: complex_data for   *)
(* an int16_t read by the caller, lane_mem for a lane load of the routine. *)
(* In a "memory" build every set is a singleton and the two agree.         *)
(*                                                                         *)
(* The locals are int: their arithmetic is that of a 32-bit int, and a     *)
(* signed overflow either wraps or stops the program.                      *)
(***************************************************************************)
EXTENDS Integers, Sequences, FiniteSets

(***************************************************************************)
(* Bounds of the model.                                                    *)
(***************************************************************************)
MaxStages == 4      \* stages ranges over 0..MaxStages
MaxSeed == 2        \* initial buffers are drawn from seeds 0..MaxSeed
MaxCalls == 2       \* the routine is called up to MaxCalls times in a row

VARIABLES
    complex_data,    \* for each int16_t index 0 .. 2*2^stages - 1 of the buffer, the
                     \* values an int16_t read by the caller may return
    lane_mem,        \* for each int16_t of the buffer, the values a lane load of the
                     \* routine may find there
    address,         \* the address of complex_data modulo 4
    build,           \* the byte order, what a misaligned int32_t access does and
                     \* how the int32_t accesses to int16_t objects are treated
    outside,         \* the lanes the model holds no cell for that were stored to
    stages,          \* the argument
    index,           \* local: current index
    index_reversed,  \* local: the running bit-reversed index
    length,          \* local: 1 << stages
    max,             \* local: length - 1
    bit,             \* local of the loop body
    mask,            \* local of the loop body
    temp,            \* local of the loop body (int32_t): the values it may hold
    pc,              \* the statement about to run
    calls,           \* how many calls have been started on this buffer
    orig,            \* history: the buffer before the first call
    before,          \* history: the buffer when the current call started
    swaps,           \* history: the <<index, index_reversed>> swapped by the current call
    oob              \* history: some swap went for a lane outside the buffer

vars == <<complex_data, lane_mem, address, build, outside, stages, index,
          index_reversed, length, max, bit, mask, temp, pc, calls, orig, before, swaps, oob>>

locals == <<index, index_reversed, length, max, bit, mask, temp>>

(***************************************************************************)
(* Machine arithmetic on int (32 bits, two's complement).                  *)
(***************************************************************************)
IntBits == 32

MaxInt == 2147483647

MinInt == (-MaxInt) - 1

RECURSIVE Pow2(_)
Pow2(n) == IF n <= 0 THEN 1 ELSE 2 * Pow2(n - 1)

\* 1 << n for 0 <= n < IntBits: with n = IntBits - 1 the bit lands in the sign
Shl1(n) == IF n < IntBits - 1 THEN Pow2(n) ELSE MinInt

\* 1 << n does not fit a positive int
ShlOverflows(n) == n >= IntBits - 1

\* x >>= 1 (arithmetic shift)
Shr1(x) == x \div 2

\* a + b does not fit an int
AddOverflows(a, b) ==
    \/ (b > 0 /\ a > MaxInt - b)
    \/ (b < 0 /\ a < MinInt - b)

\* a + b on int, wrapped around when it does not fit
Add32(a, b) ==
    IF b > 0 /\ a > MaxInt - b THEN (a + MinInt) + (b + MinInt)
    ELSE IF b < 0 /\ a < MinInt - b THEN (a - MinInt) + (b - MinInt)
    ELSE a + b

\* a - b does not fit an int
SubOverflows(a, b) ==
    \/ (b < 0 /\ a > MaxInt + b)
    \/ (b > 0 /\ a < MinInt + b)

\* a - b on int, wrapped around when it does not fit
Sub32(a, b) ==
    IF b < 0 /\ a > MaxInt + b THEN (a + MinInt) - (b - MinInt)
    ELSE IF b > 0 /\ a < MinInt + b THEN (a - MinInt) - (b + MinInt)
    ELSE a - b

\* where a statement leads: to next, or, when its arithmetic overflowed, to
\* next with the wrapped result or to the end of the program
After(overflowed, next) == IF overflowed THEN {next, "abort"} ELSE {next}

\* the bits of an int16_t read as uint16_t
U16(x) == x % 65536

RECURSIVE AndBits(_, _, _)
AndBits(a, b, n) ==
    IF n = 0 THEN 0
    ELSE (IF a % 2 = 1 /\ b % 2 = 1 THEN 1 ELSE 0)
         + 2 * AndBits(a \div 2, b \div 2, n - 1)

\* a & b on int: the low IntBits - 1 bits, then the sign bit
BitAnd(a, b) ==
    AndBits(a, b, IntBits - 1) + (IF a < 0 /\ b < 0 THEN MinInt ELSE 0)

(***************************************************************************)
(* The builds: the byte order (which int16_t of a lane is the low half of  *)
(* the int32_t) and what an int32_t access at an address that is not a     *)
(* multiple of 4 does: "performed" like an aligned one, or "trap", the     *)
(* program stops at the access (alignment checking, sanitizer, a target    *)
(* without misaligned accesses); and how the int32_t accesses to the       *)
(* int16_t objects of the buffer are treated: as accesses to their         *)
(* "memory", or as accesses that, by their type, touch no int16_t          *)
(* ("typed").                                                              *)
(***************************************************************************)
Builds == [endian : {"little", "big"},
           misaligned : {"performed", "trap"},
           aliasing : {"memory", "typed"}]

Typed == build.aliasing = "typed"

\* the addresses modulo 4 an int16_t array may have
Addresses == {0, 2}

\* lane k of complex_data_ptr is at address + 4k: aligned when address is
Aligned == address % 4 = 0

(***************************************************************************)
(* Values.  An int16_t is Known(n), or one of two unknowns, each any       *)
(* int16_t: Prior(j), what the memory of int16_t j of the buffer held      *)
(* before the caller's stores reached it, and Beyond(j), what the memory   *)
(* at int16_t index j holds where the model holds no cell for it.  An      *)
(* int32_t is <<"w", n>> when both halves are known, else the pair of its  *)
(* halves.                                                                 *)
(***************************************************************************)
Known(n) == <<"v", n>>

Prior(j) == <<"prior", j>>

Beyond(j) == <<"outside", j>>

IsKnown(c) == c[1] = "v"

\* the low half of an int32_t as an int16_t
LowHalf(v) == IF v % 65536 >= 32768 THEN (v % 65536) - 65536 ELSE v % 65536

\* the int32_t with low half lo and high half hi
Pack(lo, hi) ==
    IF IsKnown(lo) /\ IsKnown(hi)
    THEN <<"w", U16(lo[2]) + 65536 * hi[2]>>
    ELSE <<"p", lo, hi>>

LowCell(w) == IF w[1] = "w" THEN Known(LowHalf(w[2])) ELSE w[2]

HighCell(w) == IF w[1] = "w" THEN Known(w[2] \div 65536) ELSE w[3]

(***************************************************************************)
(* The buffer seen through int32_t* complex_data_ptr: lane k is the        *)
(* int16_t pair at 2k (real) and 2k+1 (imaginary); which of the two is the *)
(* low half of the int32_t depends on the byte order.                      *)
(***************************************************************************)
\* lane k is one of the 2^stages samples of the buffer
InRange(k) == k >= 0 /\ (stages >= IntBits - 1 \/ k < Pow2(stages))

\* the model holds the cells of lane k of d
Held(d, k) == 2 * k \in DOMAIN d /\ 2 * k + 1 \in DOMAIN d

LowAt(k) == IF build.endian = "little" THEN 2 * k ELSE 2 * k + 1

HighAt(k) == IF build.endian = "little" THEN 2 * k + 1 ELSE 2 * k

\* the int32_t values a load of lane k of d may return
Load32(d, k) == {Pack(lo, hi) : lo \in d[LowAt(k)], hi \in d[HighAt(k)]}

\* d after a store of one of the values of ws to lane k
Store32(d, k, ws) ==
    IF Held(d, k)
    THEN [d EXCEPT ![LowAt(k)] = {LowCell(w) : w \in ws},
                   ![HighAt(k)] = {HighCell(w) : w \in ws}]
    ELSE d

\* d with, in a typed build, what lane k of e holds as further values of its
\* lane k: the int32_t store to the lane and the int16_t accesses to it are
\* taken not to touch each other, so either may be what an access finds
Unordered(d, k, e) ==
    IF Typed /\ Held(d, k)
    THEN [d EXCEPT ![2 * k] = @ \cup e[2 * k], ![2 * k + 1] = @ \cup e[2 * k + 1]]
    ELSE d

\* a load of lane k: what the routine's view holds there; for a lane the model
\* holds no cell for, what the routine stored there, else whatever the memory
\* holds
ReadLane(k) ==
    IF Held(lane_mem, k) THEN Load32(lane_mem, k)
    ELSE IF \E e \in outside : e[1] = k
         THEN UNION {e[2] : e \in {x \in outside : x[1] = k}}
         ELSE {Pack(Beyond(LowAt(k)), Beyond(HighAt(k)))}

\* a store of one of ws to lane k, recorded when the model holds no cell for
\* the lane
WriteOutside(o, k, ws) ==
    IF Held(lane_mem, k) THEN o ELSE {e \in o : e[1] # k} \cup {<<k, ws>>}

\* how the swap of lanes k1 and k2 may go.  At a misaligned address in a
\* trapping build it stops at its first access (line 48).  Otherwise it is
\* carried out ("incr"); when it touches a lane outside the buffer it may
\* also stop at a load, before anything is stored ("abort"), or, with lane k2
\* outside, at the store of line 50, after line 49 has stored ("abort50").
Outcomes(k1, k2) ==
    IF ~Aligned /\ build.misaligned = "trap" THEN {"abort"}
    ELSE IF InRange(k1) /\ InRange(k2) THEN {"incr"}
    ELSE IF InRange(k2) THEN {"incr", "abort"}
    ELSE {"incr", "abort", "abort50"}

(***************************************************************************)
(* Initial buffers, as the caller stores them: seed 0 gives every          *)
(* component of every sample its own value; the other seeds step through a *)
(* pool of int16_t values and so give buffers with repeated samples (seed  *)
(* 1: all samples equal).  The model holds the cells of buffers of up to   *)
(* 2^MaxStages samples; a larger buffer is followed without its contents.  *)
(***************************************************************************)
Pool == <<0, 1, -1, 32767, -32768>>

HeldSamples(s) == IF s <= MaxStages THEN Pow2(s) ELSE 0

InitialBuffer(s, seed) ==
    [k \in 0 .. (2 * HeldSamples(s) - 1) |->
        {Known(IF seed = 0
               THEN (IF k % 2 = 0 THEN (k \div 2) - 2 ELSE 32767 - (k \div 2))
               ELSE Pool[((k * (seed - 1)) % Len(Pool)) + 1])}]

\* what the routine's lane loads may find in a buffer the caller has stored d
\* to: in a typed build, the caller's value or what the memory held before it
FirstLoads(d) ==
    [k \in DOMAIN d |-> IF Typed THEN d[k] \cup {Prior(k)} ELSE d[k]]

\* the state before the first call, for stages in S
Start(S) ==
    /\ stages \in S
    /\ \E seed \in 0 .. MaxSeed : complex_data = InitialBuffer(stages, seed)
    /\ address \in Addresses
    /\ build \in Builds
    /\ lane_mem = FirstLoads(complex_data)
    /\ outside = {}
    /\ index = 0
    /\ index_reversed = 0
    /\ length = 0
    /\ max = 0
    /\ bit = 0
    /\ mask = 0
    /\ temp = {<<"w", 0>>}
    /\ pc = "call"
    /\ calls = 0
    /\ orig = complex_data
    /\ before = complex_data
    /\ swaps = <<>>
    /\ oob = FALSE

Init == Start(0 .. MaxStages)

\* as Init, and also the first stages for which 1 << stages is no positive int
InitWide == Start((0 .. MaxStages) \cup {IntBits - 1})

(***************************************************************************)
(* The statements of WebRtcSpl_ComplexBitReverse.                          *)
(***************************************************************************)

\* lines 12-16 with the for loop started at index = 0
EnterMutIndex0 ==
    /\ pc = "call"
    /\ calls < MaxCalls
    /\ calls' = calls + 1
    /\ index_reversed' = 0
    /\ length' = Shl1(stages)
    /\ max' = Sub32(Shl1(stages), 1)
    /\ index' = 0
    /\ before' = complex_data
    /\ swaps' = <<>>
    /\ pc' \in After(ShlOverflows(stages) \/ SubOverflows(Shl1(stages), 1), "for")
    /\ UNCHANGED <<complex_data, lane_mem, address, build, outside, stages, bit, mask, temp, orig, oob>>

\* lines 12-16 and the initialisation of the for loop (line 22)
Enter ==
    /\ pc = "call"
    /\ calls < MaxCalls
    /\ calls' = calls + 1
    /\ index_reversed' = 0
    /\ length' = Shl1(stages)
    /\ max' = Sub32(Shl1(stages), 1)
    /\ index' = 1
    /\ before' = complex_data
    /\ swaps' = <<>>
    /\ pc' \in After(ShlOverflows(stages) \/ SubOverflows(Shl1(stages), 1), "for")
    /\ UNCHANGED <<complex_data, lane_mem, address, build, outside, stages, bit, mask, temp, orig, oob>>

\* line 22, index <= max; lines 23-27 on entering the body
ForTest ==
    /\ pc = "for"
    /\ IF index <= max
       THEN /\ temp' = {<<"w", 0>>}
            /\ bit' = length
            /\ pc' = "do"
       ELSE /\ pc' = "done"
            /\ UNCHANGED <<temp, bit>>
    /\ UNCHANGED <<complex_data, lane_mem, address, build, outside,
                   stages, index, index_reversed, length, max,
                   mask, calls, orig, before, swaps, oob>>

\* line 29, bit >>= 1
Halve ==
    /\ pc = "do"
    /\ bit' = Shr1(bit)
    /\ pc' = "while"
    /\ UNCHANGED <<complex_data, lane_mem, address, build, outside,
                   stages, index, index_reversed, length, max,
                   mask, temp, calls, orig, before, swaps, oob>>

\* line 30 with >= as the loop test
WhileTestMutGeq ==
    /\ pc = "while"
    /\ pc' \in After(SubOverflows(max, index_reversed),
                     IF bit >= Sub32(max, index_reversed) THEN "do" ELSE "update")
    /\ UNCHANGED <<complex_data, lane_mem, address, build, outside,
                   stages, locals, calls, orig, before, swaps, oob>>

\* line 30, while (bit > max - index_reversed)
WhileTest ==
    /\ pc = "while"
    /\ pc' \in After(SubOverflows(max, index_reversed),
                     IF bit > Sub32(max, index_reversed) THEN "do" ELSE "update")
    /\ UNCHANGED <<complex_data, lane_mem, address, build, outside,
                   stages, locals, calls, orig, before, swaps, oob>>

\* lines 38-39 without the & mask
UpdateMutNoMask ==
    /\ pc = "update"
    /\ mask' = Sub32(bit, 1)
    /\ index_reversed' = Add32(index_reversed, bit)
    /\ pc' \in After(SubOverflows(bit, 1) \/ AddOverflows(index_reversed, bit), "if")
    /\ UNCHANGED <<complex_data, lane_mem, address, build, outside,
                   stages, index, length, max, bit, temp, calls,
                   orig, before, swaps, oob>>

\* lines 38-39
Update ==
    /\ pc = "update"
    /\ mask' = Sub32(bit, 1)
    /\ index_reversed' = Add32(BitAnd(index_reversed, mask'), bit)
    /\ pc' \in After(SubOverflows(bit, 1)
                         \/ AddOverflows(BitAnd(index_reversed, Sub32(bit, 1)), bit),
                     "if")
    /\ UNCHANGED <<complex_data, lane_mem, address, build, outside,
                   stages, index, length, max, bit, temp, calls,
                   orig, before, swaps, oob>>

\* lines 41-43 skipping only when index_reversed < index
SkipTestMutLess ==
    /\ pc = "if"
    /\ pc' = IF index_reversed < index THEN "incr" ELSE "swap"
    /\ UNCHANGED <<complex_data, lane_mem, address, build, outside,
                   stages, locals, calls, orig, before, swaps, oob>>

\* lines 41-43
SkipTest ==
    /\ pc = "if"
    /\ pc' = IF index_reversed <= index THEN "incr" ELSE "swap"
    /\ UNCHANGED <<complex_data, lane_mem, address, build, outside,
                   stages, locals, calls, orig, before, swaps, oob>>

\* lines 48-50: temp = lane index (a), lane index = lane index_reversed (b),
\* lane index_reversed = temp.  The loads take what the routine's view may
\* hold and the stores land in it.  In a memory build the caller's view is
\* the same memory.  In a typed build an int16_t store of the caller made
\* before the first call may still land on a stored lane, and an int16_t read
\* by the caller may return what the routine stored or what the caller's
\* view held before.  A swap that stops at its first access has touched
\* nothing; one that stops at line 50 has stored lane index.
Swap ==
    /\ pc = "swap"
    /\ \E out \in Outcomes(index, index_reversed) :
          LET a == ReadLane(index)
              b == ReadLane(index_reversed)
              line49(d, e) == Unordered(Store32(d, index, b), index, e)
              line50(d, e) == Unordered(Store32(d, index_reversed, a), index_reversed, e)
          IN IF out = "abort"
             THEN /\ pc' = "abort"
                  /\ UNCHANGED <<complex_data, lane_mem, outside, temp, swaps>>
             ELSE IF out = "abort50"
             THEN /\ temp' = a
                  /\ lane_mem' = line49(lane_mem, orig)
                  /\ complex_data' = line49(complex_data, complex_data)
                  /\ outside' = WriteOutside(outside, index, b)
                  /\ pc' = "abort"
                  /\ UNCHANGED swaps
             ELSE /\ temp' = a
                  /\ lane_mem' = line50(line49(lane_mem, orig), orig)
                  /\ complex_data' =
                         line50(line49(complex_data, complex_data), complex_data)
                  /\ outside' = WriteOutside(WriteOutside(outside, index, b),
                                             index_reversed, a)
                  /\ swaps' = Append(swaps, <<index, index_reversed>>)
                  /\ pc' = "incr"
    /\ oob' = (oob \/ ~InRange(index) \/ ~InRange(index_reversed))
    /\ UNCHANGED <<address, build, stages, index, index_reversed, length, max, bit,
                   mask, calls, orig, before>>

\* line 22, ++index (reached from continue and from the end of the body)
Incr ==
    /\ pc = "incr"
    /\ index' = Add32(index, 1)
    /\ pc' \in After(AddOverflows(index, 1), "for")
    /\ UNCHANGED <<complex_data, lane_mem, address, build, outside,
                   stages, index_reversed, length, max, bit,
                   mask, temp, calls, orig, before, swaps, oob>>

\* line 52: the call returns; the caller may call again on the same buffer
Return ==
    /\ pc = "done"
    /\ calls < MaxCalls
    /\ pc' = "call"
    /\ UNCHANGED <<complex_data, lane_mem, address, build, outside,
                   stages, locals, calls, orig, before, swaps, oob>>

Next ==
    \/ Enter
    \/ ForTest
    \/ Halve
    \/ WhileTest
    \/ Update
    \/ SkipTest
    \/ Swap
    \/ Incr
    \/ Return

Spec == Init /\ [][Next]_vars

SpecWide == InitWide /\ [][Next]_vars

(***************************************************************************)
(* Vocabulary of the properties.  ReverseBits is the reference function    *)
(* the routine is specified against: i read as an n-bit number, its bits   *)
(* in the opposite order (the table at the head of the source file is      *)
(* ReverseBits(i, 3)).                                                     *)
(***************************************************************************)
RECURSIVE ReverseBits(_, _)
ReverseBits(i, n) ==
    IF n = 0 THEN 0
    ELSE (i % 2) * Pow2(n - 1) + ReverseBits(i \div 2, n - 1)

Lanes == 0 .. (Pow2(stages) - 1)

\* the complex sample at position i: <<real, imaginary>>, each the set of
\* values a read may return
Sample(d, i) == <<d[2 * i], d[2 * i + 1]>>

Palindromes == {i \in Lanes : ReverseBits(i, stages) = i}

Count(d, smp) == Cardinality({i \in Lanes : Sample(d, i) = smp})

IsPow2(x) == \E e \in 0 .. stages : x = Pow2(e)

InBody == pc \in {"do", "while", "update", "if", "swap", "incr"}

Distinct(d) == \A i, j \in Lanes : i # j => Sample(d, i) # Sample(d, j)

\* the current call is over: it returned, or the program stopped in it
Ended == pc \in {"done", "abort"}

C4_FixedPoints ==
    /\ 0 \in Palindromes
    /\ Pow2(stages) - 1 \in Palindromes
    /\ \A i \in Palindromes :
           /\ Sample(complex_data, i) = Sample(before, i)
           /\ Cardinality(complex_data[2 * i]) = 1
           /\ Cardinality(complex_data[2 * i + 1]) = 1

\* a call has returned that moved samples around an inner palindromic position
C4_Witness ==
    /\ pc = "done"
    /\ Distinct(before)
    /\ complex_data # before
    /\ \E i \in Palindromes : i # 0 /\ i # Pow2(stages) - 1
    /\ \A i \in Palindromes : Sample(complex_data, i) = Sample(before, i)

C6_SmallStages ==
    /\ stages = 0 => (~InBody /\ swaps = <<>> /\ complex_data = orig)
    /\ stages = 1 =>
           /\ InBody => index = 1
           /\ pc # "swap"
           /\ swaps = <<>>
           /\ complex_data = orig

\* stages = 1 on a buffer [A, B] with A # B: the call has returned, having gone
\* through the skip test once
C6_Witness ==
    /\ stages = 1
    /\ pc = "done"
    /\ index = 2
    /\ index_reversed = 1
    /\ Sample(orig, 0) # Sample(orig, 1)
    /\ complex_data = orig

\* C7: the running counter is 0 = ReverseBits(0, stages) when the loop starts
\* and, right after its update in the iteration for index, equals
\* ReverseBits(index, stages); until the update it is that of index - 1.
C7_ReversedCounter ==
    /\ pc \in {"if", "swap", "incr"} =>
           /\ index \in 1 .. max
           /\ index_reversed = ReverseBits(index, stages)
    /\ pc \in {"for", "do", "while", "update"} =>
           index_reversed = ReverseBits(index - 1, stages)

\* the update of a late iteration has just run: the counter went down
C7_Witness ==
    /\ pc = "if"
    /\ stages = 4
    /\ index = 12
    /\ index_reversed = 3

C9_SmallestPowerOfTwo ==
    pc = "update" =>
        /\ IsPow2(bit)
        /\ bit <= max - index_reversed
        /\ \A e \in 0 .. stages :
               Pow2(e) <= max - index_reversed => bit <= Pow2(e)

\* C9 amended: when the halving loop ends, bit is the largest power of two
\* with bit <= max - index_reversed.
C9_LargestPowerOfTwo ==
    pc = "update" =>
        /\ IsPow2(bit)
        /\ bit <= max - index_reversed
        /\ \A e \in 0 .. stages :
               Pow2(e) <= max - index_reversed => Pow2(e) <= bit

\* the halving loop has ended after more than one halving, on a bit that is
\* neither the top bit nor 1
C9_Witness ==
    /\ pc = "update"
    /\ stages = 4
    /\ bit = 2
    /\ max - index_reversed = 3

\* C10: for every stages >= 0 the halving loop ends with bit >= 1, the updated
\* counter is in 1 .. 2^stages - 1, and a swap touches only positions in
\* 0 .. 2^stages - 1.
C10_InBounds ==
    /\ pc = "update" => bit >= 1
    /\ pc \in {"if", "swap", "incr"} =>
           (1 <= index_reversed /\ InRange(index_reversed))
    /\ pc = "swap" => (InRange(index) /\ InRange(index_reversed))
    /\ ~oob

=============================================================================
